---- MODULE Spec2Model ----
\* Port-forwarding supervisor of tpot (src/main.go, type fwd): Run, the
\* per-tunnel workers (execForwarding), the health checker (doHealthCheck)
\* and its probe goroutines, all writing the shared ForwardingNode records
\* without synchronisation.
\*
\* Granularity: one step per access to a shared ForwardingNode field, so the
\* unsynchronised writers interleave statement by statement.
\* Time: computation steps take no time; only the blocking calls let time
\* pass (net.DialTimeout for at most DialTimeout, time.Sleep for Period, the
\* Forward Primitive and the Dashboard for an arbitrary duration).
EXTENDS Integers, Sequences, FiniteSets, TLC

\* ---------------------------------------------------------------- bounds
MaxNodes == 2
MaxTicks == 2
\* longest user list given to the selector
MaxUsers == 3
\* readers created and reads per reader in the reader specification
MaxReaders == 2
MaxReads == 2
\* largest buffer handed to Read
MaxBuf == 2
\* longest list of the liveness specification
FairNodes == 1

\* ------------------------------------------------------ program constants
DialTimeout == 1
Period == 2
\* dur of the sleepReader, 3 * time.Minute, in seconds
IdleDur == 180

EOF == "EOF"
Nil == "nil"
NoResult == "none"
ErrEmpty == "forwarding configuration is empty"
DialError == "dial tcp: connection refused"
ForwardErrors == {"connection refused"}
ForwardResults == {EOF, Nil} \cup ForwardErrors

NoInv == [user |-> "-", host |-> "-", addr |-> 0]

VARIABLES
  list,         \* f.list: sequence of ForwardingNode records
  nodeHost,     \* f.nodeHost
  defaultUser,  \* f.defaultUser
  runPc,        \* position of fwd.Run
  runIdx,       \* loop index of Run's for loop
  runErr,       \* value returned by Run
  hcPc,         \* position of doHealthCheck
  hcIdx,        \* loop index of doHealthCheck's inner for loop
  ticks,        \* number of outer-loop iterations doHealthCheck has begun
  sleepLeft,    \* time left of doHealthCheck's time.Sleep
  task,         \* goroutines: workers and probes
  ui,           \* the LoginUser selector (src/ui/login_user_selector.go)
  rd            \* one execForwarding loop with its sleepReaders

fwdVars == <<list, nodeHost, defaultUser, runPc, runIdx, runErr,
             hcPc, hcIdx, ticks, sleepLeft, task>>

vars == <<fwdVars, ui, rd>>

\* the selector and the reader while they are not in use
UiIdle == [pc |-> "idle", listUser |-> <<>>, list |-> <<>>, pos |-> 0,
           selectedUser |-> ""]
RdIdle == [pc |-> "idle", made |-> 0, in |-> 0, left |-> 0, slept |-> 0,
           reads |-> 0, n |-> 0, err |-> NoResult]

\* ----------------------------------------------------------------- helpers
ForwardingNode(port, host, user) ==
  [ListenPort |-> port, Host |-> host, UserLogin |-> user,
   Status |-> FALSE, Error |-> ""]

PortOf(i) == 8080 + i

\* the configured nodes: odd ones leave host and user login to the defaults,
\* even ones set both
HostOf(i) == IF i % 2 = 1 THEN "" ELSE "node-2"
UserOf(i) == IF i % 2 = 1 THEN "" ELSE "alice"

AllLists ==
  { [i \in 1..n |-> ForwardingNode(PortOf(i), HostOf(i), UserOf(i))] : n \in 0..MaxNodes }

TaskIds == 1..(MaxNodes + MaxTicks * MaxNodes)
WorkerIds == 1..MaxNodes
ProbeIds == TaskIds \ WorkerIds
WorkerId(i) == i
ProbeId(t, i) == MaxNodes + (t - 1) * MaxNodes + i

NoTask == [pc |-> "none", node |-> 0, tick |-> 0, timer |-> 0,
           err |-> NoResult, inv |-> NoInv]

\* node.Address(): the derived forwarding address of a node
Address(node) == node.ListenPort

\* the process is running: main returns (and the process exits) once Run returns
Alive == runPc # "returned"

\* ------------------------------------------------------------------- Init
Init ==
  /\ list \in AllLists
  /\ nodeHost = "node-1"
  /\ defaultUser = "root"
  /\ runPc = "L402"
  /\ runIdx = 0
  /\ runErr = NoResult
  /\ hcPc = "none"
  /\ hcIdx = 0
  /\ ticks = 0
  /\ sleepLeft = 0
  /\ task = [t \in TaskIds |-> NoTask]
  /\ ui = UiIdle
  /\ rd = RdIdle

\* ------------------------------------------------------------------ fwd.Run
\* variant: the empty-list test is missing
RunCheckNoEmptyTest ==
  /\ runPc = "L402"
  /\ runPc' = "L405"
  /\ runIdx' = 1
  /\ UNCHANGED <<ui, rd, list, nodeHost, defaultUser, runErr, hcPc, hcIdx, ticks, sleepLeft, task>>

\* if len(f.list) == 0 { return error }
RunCheck ==
  /\ runPc = "L402"
  /\ IF Len(list) = 0
       THEN /\ runPc' = "returned"
            /\ runErr' = ErrEmpty
            /\ runIdx' = runIdx
       ELSE /\ runPc' = "L405"
            /\ runIdx' = 1
            /\ runErr' = runErr
  /\ UNCHANGED <<ui, rd, list, nodeHost, defaultUser, hcPc, hcIdx, ticks, sleepLeft, task>>

\* variant: the goroutines share the loop variable instead of receiving the
\* node as an argument, and all see the last node
RunSpawnWorkerSharedVar ==
  /\ runPc = "L405"
  /\ runIdx <= Len(list)
  /\ task' = [task EXCEPT ![WorkerId(runIdx)] =
                [NoTask EXCEPT !.pc = "L437", !.node = Len(list)]]
  /\ runIdx' = runIdx + 1
  /\ UNCHANGED <<ui, rd, list, nodeHost, defaultUser, runPc, runErr, hcPc, hcIdx, ticks, sleepLeft>>

\* for _, node := range f.list { go func(node){ f.execForwarding(node) }(node) }
RunSpawnWorker ==
  /\ runPc = "L405"
  /\ runIdx <= Len(list)
  /\ task' = [task EXCEPT ![WorkerId(runIdx)] =
                [NoTask EXCEPT !.pc = "L437", !.node = runIdx]]
  /\ runIdx' = runIdx + 1
  /\ UNCHANGED <<ui, rd, list, nodeHost, defaultUser, runPc, runErr, hcPc, hcIdx, ticks, sleepLeft>>

\* go f.doHealthCheck(); ui.NewForwarding(f.list) is entered (and blocks)
RunSpawnHealthCheck ==
  /\ runPc = "L405"
  /\ runIdx > Len(list)
  /\ runPc' = "L411"
  /\ hcPc' = "L417"
  /\ hcIdx' = 1
  /\ ticks' = 1
  /\ UNCHANGED <<ui, rd, list, nodeHost, defaultUser, runIdx, runErr, sleepLeft, task>>

\* variant: Run returns the error recorded for a tunnel, if there is one
DashboardReturnTunnelError ==
  /\ runPc = "L411"
  /\ runPc' = "returned"
  /\ runErr' = IF \E i \in 1..Len(list) : list[i].Error # ""
                 THEN list[CHOOSE i \in 1..Len(list) : list[i].Error # ""].Error
                 ELSE Nil
  /\ hcPc' = "none"
  /\ hcIdx' = 0
  /\ sleepLeft' = 0
  /\ task' = [t \in TaskIds |-> NoTask]
  /\ UNCHANGED <<ui, rd, list, nodeHost, defaultUser, runIdx, ticks>>

\* ui.NewForwarding returns; return nil. The caller returns from main: the
\* process exits and every goroutine ends with it.
DashboardReturn ==
  /\ runPc = "L411"
  /\ runPc' = "returned"
  /\ runErr' = Nil
  /\ hcPc' = "none"
  /\ hcIdx' = 0
  /\ sleepLeft' = 0
  /\ task' = [t \in TaskIds |-> NoTask]
  /\ UNCHANGED <<ui, rd, list, nodeHost, defaultUser, runIdx, ticks>>

\* ------------------------------------------------------- fwd.doHealthCheck
\* variant: the probe goroutines share the loop variable instead of receiving
\* the node as an argument, and all see the last node
HCSpawnProbeSharedVar ==
  /\ Alive
  /\ hcPc = "L417"
  /\ hcIdx <= Len(list)
  /\ task' = [task EXCEPT ![ProbeId(ticks, hcIdx)] =
                [NoTask EXCEPT !.pc = "L420", !.node = Len(list),
                               !.tick = ticks, !.timer = DialTimeout]]
  /\ hcIdx' = hcIdx + 1
  /\ UNCHANGED <<ui, rd, list, nodeHost, defaultUser, runPc, runIdx, runErr, hcPc, ticks, sleepLeft>>

\* for _, node := range f.list { go func(node){ ... }(node) }
HCSpawnProbe ==
  /\ Alive
  /\ hcPc = "L417"
  /\ hcIdx <= Len(list)
  /\ task' = [task EXCEPT ![ProbeId(ticks, hcIdx)] =
                [NoTask EXCEPT !.pc = "L420", !.node = hcIdx,
                               !.tick = ticks, !.timer = DialTimeout]]
  /\ hcIdx' = hcIdx + 1
  /\ UNCHANGED <<ui, rd, list, nodeHost, defaultUser, runPc, runIdx, runErr, hcPc, ticks, sleepLeft>>

\* variant: the loop does not wait between two rounds of probes
HCSleepNoDelay ==
  /\ Alive
  /\ hcPc = "L417"
  /\ hcIdx > Len(list)
  /\ hcPc' = "L431"
  /\ sleepLeft' = 0
  /\ UNCHANGED <<ui, rd, list, nodeHost, defaultUser, runPc, runIdx, runErr, hcIdx, ticks, task>>

\* time.Sleep(2 * time.Second) is entered
HCSleep ==
  /\ Alive
  /\ hcPc = "L417"
  /\ hcIdx > Len(list)
  /\ hcPc' = "L431"
  /\ sleepLeft' = Period
  /\ UNCHANGED <<ui, rd, list, nodeHost, defaultUser, runPc, runIdx, runErr, hcIdx, ticks, task>>

\* variant: the loop waits for the probes it launched before its next iteration
HCWakeAfterJoin ==
  /\ Alive
  /\ hcPc = "L431"
  /\ sleepLeft = 0
  /\ ticks < MaxTicks
  /\ \A t \in TaskIds : task[t].tick > 0 => task[t].pc = "done"
  /\ hcPc' = "L417"
  /\ hcIdx' = 1
  /\ ticks' = ticks + 1
  /\ UNCHANGED <<ui, rd, list, nodeHost, defaultUser, runPc, runIdx, runErr, sleepLeft, task>>

\* time.Sleep returns; the outer for loop starts its next iteration
HCWake ==
  /\ Alive
  /\ hcPc = "L431"
  /\ sleepLeft = 0
  /\ ticks < MaxTicks
  /\ hcPc' = "L417"
  /\ hcIdx' = 1
  /\ ticks' = ticks + 1
  /\ UNCHANGED <<ui, rd, list, nodeHost, defaultUser, runPc, runIdx, runErr, sleepLeft, task>>

\* ------------------------------------------------------------- probe body
\* _, err := net.DialTimeout(...) returns within the timeout; the goroutine
\* goes on to its first write: node.Status = false (err != nil) or
\* node.Status = true
DialReturn(t, ok) ==
  /\ Alive
  /\ task[t].pc = "L420"
  /\ list' = [list EXCEPT ![task[t].node].Status = ok]
  /\ task' = [task EXCEPT ![t].pc = IF ok THEN "L428" ELSE "L423",
                          ![t].timer = 0]
  /\ UNCHANGED <<ui, rd, nodeHost, defaultUser, runPc, runIdx, runErr, hcPc, hcIdx, ticks, sleepLeft>>

\* node.Error = err.Error(); f.execForwarding(node) is entered
ProbeL423(t) ==
  /\ Alive
  /\ task[t].pc = "L423"
  /\ list' = [list EXCEPT ![task[t].node].Error = DialError]
  /\ task' = [task EXCEPT ![t].pc = "L437"]
  /\ UNCHANGED <<ui, rd, nodeHost, defaultUser, runPc, runIdx, runErr, hcPc, hcIdx, ticks, sleepLeft>>

\* variant: the success branch falls through into the recovery
ProbeL428FallsThrough(t) ==
  /\ Alive
  /\ task[t].pc = "L428"
  /\ list' = [list EXCEPT ![task[t].node].Error = ""]
  /\ task' = [task EXCEPT ![t].pc = "L437"]
  /\ UNCHANGED <<ui, rd, nodeHost, defaultUser, runPc, runIdx, runErr, hcPc, hcIdx, ticks, sleepLeft>>

\* node.Error = ""; the goroutine ends
ProbeL428(t) ==
  /\ Alive
  /\ task[t].pc = "L428"
  /\ list' = [list EXCEPT ![task[t].node].Error = ""]
  /\ task' = [task EXCEPT ![t].pc = "done"]
  /\ UNCHANGED <<ui, rd, nodeHost, defaultUser, runPc, runIdx, runErr, hcPc, hcIdx, ticks, sleepLeft>>

\* ------------------------------------------------------ fwd.execForwarding
\* variant: the defaults are written whether or not the node sets its own values
ResolvedAlways(node) ==
  [node EXCEPT !.UserLogin = defaultUser, !.Host = nodeHost]

\* the node after lines 437-443 (defaults written into the node)
Resolved(node) ==
  [node EXCEPT !.UserLogin = IF node.UserLogin = "" THEN defaultUser ELSE node.UserLogin,
               !.Host = IF node.Host = "" THEN nodeHost ELSE node.Host]

\* the arguments of f.tsh.Forward(node.UserLogin, f.nodeHost, node.Address(), in)
ForwardArgs(node) ==
  [user |-> node.UserLogin, host |-> nodeHost, addr |-> Address(node)]

\* lines 437-446: resolve the defaults, then call f.tsh.Forward (which blocks);
\* err is a fresh variable of the iteration, without a value until the call returns
ExecInvoke(t) ==
  /\ Alive
  /\ task[t].pc = "L437"
  /\ list' = [list EXCEPT ![task[t].node] = Resolved(list[task[t].node])]
  /\ task' = [task EXCEPT ![t].pc = "L446",
                          ![t].err = NoResult,
                          ![t].inv = ForwardArgs(Resolved(list[task[t].node]))]
  /\ UNCHANGED <<ui, rd, nodeHost, defaultUser, runPc, runIdx, runErr, hcPc, hcIdx, ticks, sleepLeft>>

\* the node after the first statement of the branch taken on err:
\* err == io.EOF: node.Status = true; err != nil: node.Status = false;
\* otherwise node.Status = true
AfterForward(node, e) ==
  IF e = EOF THEN [node EXCEPT !.Status = TRUE]
  ELSE IF e # Nil THEN [node EXCEPT !.Status = FALSE]
  ELSE [node EXCEPT !.Status = TRUE]

\* variant: every result other than io.EOF is taken for a failure
AfterForwardPcNilFails(e) ==
  IF e = EOF THEN "L437" ELSE "L453"

\* where the goroutine is after that statement: err == io.EOF: continue;
\* err != nil: before node.Error = err.Error(); otherwise the next iteration
AfterForwardPc(e) ==
  IF e = EOF THEN "L437" ELSE IF e # Nil THEN "L453" ELSE "L437"

\* f.tsh.Forward returns e (err := ...); the branch on e makes its write to
\* node.Status
ForwardReturn(t, e) ==
  /\ Alive
  /\ task[t].pc = "L446"
  /\ list' = [list EXCEPT ![task[t].node] = AfterForward(list[task[t].node], e)]
  /\ task' = [task EXCEPT ![t].pc = AfterForwardPc(e), ![t].err = e]
  /\ UNCHANGED <<ui, rd, nodeHost, defaultUser, runPc, runIdx, runErr, hcPc, hcIdx, ticks, sleepLeft>>

\* variant: after recording the error the loop goes on instead of returning
ExecL453Retry(t) ==
  /\ Alive
  /\ task[t].pc = "L453"
  /\ list' = [list EXCEPT ![task[t].node].Error = task[t].err]
  /\ task' = [task EXCEPT ![t].pc = "L437"]
  /\ UNCHANGED <<ui, rd, nodeHost, defaultUser, runPc, runIdx, runErr, hcPc, hcIdx, ticks, sleepLeft>>

\* node.Error = err.Error(); return
ExecL453(t) ==
  /\ Alive
  /\ task[t].pc = "L453"
  /\ list' = [list EXCEPT ![task[t].node].Error = task[t].err]
  /\ task' = [task EXCEPT ![t].pc = "done"]
  /\ UNCHANGED <<ui, rd, nodeHost, defaultUser, runPc, runIdx, runErr, hcPc, hcIdx, ticks, sleepLeft>>

\* --------------------------------------------------------------------- time
\* a goroutine that is blocked in a call that takes time
Blocked(t) ==
  \/ task[t].pc \in {"none", "L446", "done"}
  \/ task[t].pc = "L420" /\ task[t].timer > 0

\* one time unit (a second) passes: only when every goroutine is blocked
TimePass ==
  /\ Alive
  /\ runPc = "L411"
  /\ hcPc = "L431"
  /\ sleepLeft > 0 \/ ticks = MaxTicks
  /\ \A t \in TaskIds : Blocked(t)
  /\ sleepLeft' = IF sleepLeft > 0 THEN sleepLeft - 1 ELSE 0
  /\ task' = [t \in TaskIds |->
                IF task[t].pc = "L420"
                  THEN [task[t] EXCEPT !.timer = task[t].timer - 1]
                  ELSE task[t]]
  /\ UNCHANGED <<ui, rd, list, nodeHost, defaultUser, runPc, runIdx, runErr, hcPc, hcIdx, ticks>>

\* --------------------------------------------------------------------- Next
Next ==
  \/ RunCheck
  \/ RunSpawnWorker
  \/ RunSpawnHealthCheck
  \/ DashboardReturn
  \/ HCSpawnProbe
  \/ HCSleep
  \/ HCWake
  \/ \E t \in TaskIds, ok \in BOOLEAN : DialReturn(t, ok)
  \/ \E t \in TaskIds : ProbeL423(t)
  \/ \E t \in TaskIds : ProbeL428(t)
  \/ \E t \in TaskIds : ExecInvoke(t)
  \/ \E t \in TaskIds, e \in ForwardResults : ForwardReturn(t, e)
  \/ \E t \in TaskIds : ExecL453(t)
  \/ TimePass

Spec == Init /\ [][Next]_vars

\* Computation takes no time and time goes on: again and again every goroutine
\* is blocked in a call that takes time.
NonZeno == []<>(\A t \in TaskIds : Blocked(t))

\* Scheduling: every goroutine that can take a computation step eventually
\* takes it, a dial returns within its timeout, and time goes on; nothing
\* makes the Forward Primitive or the Dashboard return.
Fairness ==
  /\ NonZeno
  /\ WF_vars(RunCheck) /\ WF_vars(RunSpawnWorker) /\ WF_vars(RunSpawnHealthCheck)
  /\ WF_vars(HCSpawnProbe) /\ WF_vars(HCSleep) /\ WF_vars(HCWake)
  /\ \A t \in TaskIds :
       /\ WF_vars(\E ok \in BOOLEAN : DialReturn(t, ok))
       /\ WF_vars(ProbeL423(t)) /\ WF_vars(ProbeL428(t))
       /\ WF_vars(ExecInvoke(t)) /\ WF_vars(ExecL453(t))
  /\ SF_vars(TimePass)

\* the liveness specification starts from the lists of at most FairNodes nodes
FairInit == Init /\ Len(list) <= FairNodes

FairSpec == FairInit /\ [][Next]_vars /\ Fairness

TypeOK ==
  /\ Len(list) <= MaxNodes
  /\ runPc \in {"L402", "L405", "L411", "returned"}
  /\ hcPc \in {"none", "L417", "L431"}
  /\ ticks \in 0..MaxTicks
  /\ sleepLeft \in 0..Period
  /\ \A t \in TaskIds : task[t].timer \in 0..DialTimeout

\* ====================================================== ui.LoginUser selector
Users == {"root", "ubuntu", "admin"}
UserLists == UNION { [1..n -> Users] : n \in 0..MaxUsers }

\* a[i], a[j] = a[j], a[i] (indices from 1)
Swap(a, i, j) == [a EXCEPT ![i] = a[j], ![j] = a[i]]

\* for i := ...; i >= 0; i-- { opp := len(a) - 1 - i; a[i], a[opp] = a[opp], a[i] }
RECURSIVE reverseLoop(_, _)
reverseLoop(a, i) ==
  IF i >= 0 THEN reverseLoop(Swap(a, i + 1, (Len(a) - 1 - i) + 1), i - 1) ELSE a

\* variant: the loop starts at the middle element instead of just before it
reverseFromMiddle(s) == reverseLoop(s, Len(s) \div 2)

\* reverse: a copy of s, swapped pairwise from i = len(a)/2 - 1 down to 0
reverse(s) == reverseLoop(s, (Len(s) \div 2) - 1)

\* the fwd supervisor is not running in the selector and reader specifications
FwdIdle ==
  /\ list = << >>
  /\ nodeHost = "node-1"
  /\ defaultUser = "root"
  /\ runPc = "returned"
  /\ runIdx = 0
  /\ runErr = NoResult
  /\ hcPc = "none"
  /\ hcIdx = 0
  /\ ticks = 0
  /\ sleepLeft = 0
  /\ task = [t \in TaskIds |-> NoTask]

\* before NewLoginUser(listUser) is called
InitUI ==
  /\ FwdIdle
  /\ rd = RdIdle
  /\ ui \in { [UiIdle EXCEPT !.pc = "new", !.listUser = s] : s \in UserLists }

\* NewLoginUser: gocui.NewGui or the key binding fails
NewLoginUserFails ==
  /\ ui.pc = "new"
  /\ ui' = [ui EXCEPT !.pc = "error"]
  /\ UNCHANGED <<fwdVars, rd>>

\* NewLoginUser: listUser = reverse(listUser); l := &LoginUser{list: listUser};
\* then Run enters the main loop
NewLoginUser ==
  /\ ui.pc = "new"
  /\ ui' = [ui EXCEPT !.pc = "loop", !.list = reverse(ui.listUser),
                      !.pos = 0, !.selectedUser = ""]
  /\ UNCHANGED <<fwdVars, rd>>

\* the position after the Tab and ArrowDown handlers
NavDown(l) == IF l.pos < Len(l.list) - 1 THEN l.pos + 1 ELSE l.pos
\* the position after the ArrowUp handler
NavUp(l) == IF l.pos > 0 THEN l.pos - 1 ELSE l.pos

KeyTab ==
  /\ ui.pc = "loop"
  /\ ui' = [ui EXCEPT !.pos = NavDown(ui)]
  /\ UNCHANGED <<fwdVars, rd>>

KeyArrowUp ==
  /\ ui.pc = "loop"
  /\ ui' = [ui EXCEPT !.pos = NavUp(ui)]
  /\ UNCHANGED <<fwdVars, rd>>

KeyArrowDown ==
  /\ ui.pc = "loop"
  /\ ui' = [ui EXCEPT !.pos = NavDown(ui)]
  /\ UNCHANGED <<fwdVars, rd>>

\* handleEnter: l.selectedUser = l.list[l.pos] (a run-time panic when pos is
\* no index of list); return gocui.ErrQuit
KeyEnter ==
  /\ ui.pc = "loop"
  /\ ui' = IF 0 <= ui.pos /\ ui.pos < Len(ui.list)
             THEN [ui EXCEPT !.pc = "quit", !.selectedUser = ui.list[ui.pos + 1]]
             ELSE [ui EXCEPT !.pc = "panic"]
  /\ UNCHANGED <<fwdVars, rd>>

NextUI ==
  \/ NewLoginUserFails
  \/ NewLoginUser
  \/ KeyTab
  \/ KeyArrowUp
  \/ KeyArrowDown
  \/ KeyEnter

SpecUI == InitUI /\ [][NextUI]_vars

\* ================================================================ sleepReader
\* one execForwarding loop seen from its input source: rd.made readers have
\* been created, rd.in is the one the running Forward call holds
InitReader ==
  /\ FwdIdle
  /\ ui = UiIdle
  /\ rd = [RdIdle EXCEPT !.pc = "L445"]

\* in := &sleepReader{dur: 3 * time.Minute}; f.tsh.Forward(..., in) is called
RdNewReader ==
  /\ rd.pc = "L445"
  /\ rd.made < MaxReaders
  /\ rd' = [rd EXCEPT !.pc = "forward", !.made = rd.made + 1, !.in = rd.made + 1,
                      !.reads = 0, !.left = 0, !.slept = 0]
  /\ UNCHANGED <<fwdVars, ui>>

\* the Forward Primitive calls in.Read(p) with len(p) = plen: time.Sleep(f.dur)
RdReadBegin(plen) ==
  /\ rd.pc = "forward"
  /\ rd.reads < MaxReads
  /\ rd' = [rd EXCEPT !.pc = "sleep", !.left = IdleDur, !.slept = 0,
                      !.n = 0, !.err = NoResult]
  /\ UNCHANGED <<fwdVars, ui>>

\* a second of the sleep passes
RdSleepTick ==
  /\ rd.pc = "sleep"
  /\ rd.left > 0
  /\ rd' = [rd EXCEPT !.left = rd.left - 1, !.slept = rd.slept + 1]
  /\ UNCHANGED <<fwdVars, ui>>

\* variant: Read reports no error
RdReadReturnNil ==
  /\ rd.pc = "sleep"
  /\ rd.left = 0
  /\ rd' = [rd EXCEPT !.pc = "forward", !.n = 0, !.err = Nil, !.reads = rd.reads + 1]
  /\ UNCHANGED <<fwdVars, ui>>

\* return 0, io.EOF
RdReadReturn ==
  /\ rd.pc = "sleep"
  /\ rd.left = 0
  /\ rd' = [rd EXCEPT !.pc = "forward", !.n = 0, !.err = EOF, !.reads = rd.reads + 1]
  /\ UNCHANGED <<fwdVars, ui>>

\* the Forward Primitive returns; unless the error is terminal the loop goes on
RdForwardReturn(e) ==
  /\ rd.pc = "forward"
  /\ rd' = [rd EXCEPT !.pc = IF AfterForwardPc(e) = "L437" THEN "L445" ELSE "done"]
  /\ UNCHANGED <<fwdVars, ui>>

NextReader ==
  \/ RdNewReader
  \/ \E plen \in 0..MaxBuf : RdReadBegin(plen)
  \/ RdSleepTick
  \/ RdReadReturn
  \/ \E e \in ForwardResults : RdForwardReturn(e)

SpecReader == InitReader /\ [][NextReader]_vars

\* ================================================================== claims
\* goroutines that exist
Started == { t \in TaskIds : task[t].pc # "none" }
\* goroutines launched by Run (workers) and by doHealthCheck (probes)
Workers == { t \in Started : task[t].tick = 0 }
Probes == { t \in Started : task[t].tick > 0 }
\* the step changes goroutine t
Steps(t) == task'[t] # task[t]
\* the process exits in this step
Exits == runPc' = "returned"
\* a value returned by the Forward Primitive that is an error other than io.EOF
Terminal(e) == e \notin {EOF, Nil, NoResult}

\* C1: with an empty list Run returns 'forwarding configuration is empty' and
\* no worker, no health checker, no probe and no dashboard ever starts.
C1_EmptyStartsNothing ==
  Len(list) = 0 =>
    /\ runPc \in {"L402", "returned"}
    /\ runPc = "returned" => runErr = ErrEmpty
    /\ hcPc = "none"
    /\ ticks = 0
    /\ Started = {}

C1_Witness == Len(list) = 0 /\ runPc = "returned" /\ runErr = ErrEmpty

\* C2: with N > 0 nodes, once the Dashboard is invoked Run has launched
\* exactly N workers, one per node of the list, and the health checker; before
\* the Dashboard is invoked no health checker runs, and the workers launched
\* so far are bound to distinct nodes of the list.
C2_OneWorkerPerSpec ==
  /\ runPc = "L411" =>
       /\ Cardinality(Workers) = Len(list)
       /\ \A i \in 1..Len(list) :
            Cardinality({ w \in Workers : task[w].node = i }) = 1
       /\ hcPc # "none"
  /\ runPc \in {"L402", "L405"} =>
       /\ hcPc = "none"
       /\ Probes = {}
       /\ Cardinality(Workers) <= Len(list)
       /\ \A w \in Workers : task[w].node \in 1..Len(list)
       /\ \A v, w \in Workers : v # w => task[v].node # task[w].node

C2_Witness ==
  /\ runPc = "L411"
  /\ Len(list) = 2
  /\ Cardinality(Workers) = 2
  /\ ticks = 2
  /\ Probes # {}

\* Run's result: the error exactly for the empty list, nil otherwise
C3_RunResult ==
  /\ runPc = "returned" =>
       runErr = (IF Len(list) = 0 THEN ErrEmpty ELSE Nil)
  /\ runPc # "returned" => runErr = NoResult

\* a step in which a goroutine receives an error from the dial or from the
\* Forward Primitive
C3_FailureStaysInNode ==
  \A t \in TaskIds :
    (task[t].pc \in {"L420", "L446"} /\ task'[t].pc \in {"L423", "L453"}) =>
      /\ runPc' = runPc
      /\ runErr' = runErr
      /\ ~list'[task[t].node].Status

\* C3: Run returns an error exactly when the list is empty; for a non-empty
\* list it returns nil whatever the Forward Primitive and the probes returned,
\* and a step in which a goroutine receives such an error changes neither Run's
\* position nor its result, but sets the node's Status to false.
C3_ErrorOnlyIfEmpty == []C3_RunResult /\ [][C3_FailureStaysInNode]_vars

C3_Witness ==
  /\ runPc = "returned"
  /\ runErr = Nil
  /\ \E i \in 1..Len(list) : ~list[i].Status /\ list[i].Error \in ForwardErrors
  /\ \E i \in 1..Len(list) : ~list[i].Status /\ list[i].Error = DialError

\* the steps of worker w from the return of a terminal error on
C4_WorkerStep(w) ==
  /\ (task[w].pc = "L446" /\ Steps(w) /\ ~Exits /\ Terminal(task'[w].err)) =>
       /\ task'[w].pc = "L453"
       /\ ~list'[task[w].node].Status
  /\ (task[w].pc = "L453" /\ Steps(w) /\ ~Exits) =>
       /\ task'[w].pc = "done"
       /\ list'[task[w].node].Error = task[w].err
       /\ Terminal(task[w].err)
       /\ task'[w].inv = task[w].inv
  /\ (task[w].pc = "done" /\ ~Exits) => task'[w] = task[w]

\* C4: when the Forward Primitive called by a worker returns an error other
\* than io.EOF, the worker sets Status to false, then sets Error to the error's
\* text and ends; an ended worker stays ended and makes no further invocation.
C4_TerminalErrorEndsWorker == [][\A w \in WorkerIds : C4_WorkerStep(w)]_vars

C4_Witness ==
  \E w \in Workers :
    /\ task[w].pc = "done"
    /\ task[w].err = "connection refused"
    /\ ~list[task[w].node].Status
    /\ list[task[w].node].Error = "connection refused"

\* the steps of goroutine t when the Forward Primitive returns io.EOF
C5_EofStep(t) ==
  /\ (task[t].pc = "L446" /\ Steps(t) /\ ~Exits /\ task'[t].err = EOF) =>
       /\ list'[task[t].node].Status
       /\ list'[task[t].node].Error = ""
       /\ task'[t].pc = "L437"
  /\ (task[t].pc = "L437" /\ Steps(t) /\ ~Exits) => task'[t].pc = "L446"

\* C5: when an invocation of the Forward Primitive ends with io.EOF, the
\* node is set to Status = true with Error cleared, whatever was recorded
\* before, and the Forward Primitive is invoked again.
C5_EofMarksHealthyAndClears == [][\A t \in TaskIds : C5_EofStep(t)]_vars

\* the user and host the configuration of node i asks for
EffectiveUser(i) == IF UserOf(i) # "" THEN UserOf(i) ELSE defaultUser
EffectiveHost(i) == IF HostOf(i) # "" THEN HostOf(i) ELSE nodeHost

\* the arguments of every invocation made so far
C6_ArgsAreEffective ==
  \A t \in Started :
    task[t].inv # NoInv =>
      /\ task[t].inv.user = EffectiveUser(task[t].node)
      /\ task[t].inv.host = EffectiveHost(task[t].node)

\* an invocation that is not the goroutine's first
C6_RestartSameArgs ==
  \A t \in TaskIds :
    (task[t].pc = "L437" /\ task'[t].pc = "L446" /\ task[t].inv # NoInv) =>
      task'[t].inv = task[t].inv

\* C6: every invocation of the Forward Primitive passes the node's own user
\* login and host where the configuration sets them and the supervisor's
\* defaults where it does not, and a restart passes what the previous
\* invocation passed.
C6_EffectiveUserAndHost == []C6_ArgsAreEffective /\ [][C6_RestartSameArgs]_vars

\* the steps of probe t after a failed dial
C7_ProbeStep(t) ==
  /\ (task[t].pc = "L420" /\ task'[t].pc = "L423") =>
       /\ ~list'[task[t].node].Status
       /\ ticks' = ticks
  /\ (task[t].pc = "L423" /\ Steps(t) /\ ~Exits) =>
       /\ list'[task[t].node].Error = DialError
       /\ task'[t].pc = "L437"
       /\ ticks' = ticks
  /\ (task[t].pc = "L437" /\ Steps(t) /\ ~Exits) =>
       /\ task'[t].pc = "L446"
       /\ task'[t].inv = ForwardArgs(list'[task[t].node])
       /\ ticks' = ticks

\* the probes of earlier rounds are past their writes and their first invocation
C7_DoneBeforeNextTick ==
  \A t \in Probes :
    task[t].tick < ticks =>
      /\ task[t].pc \notin {"L420", "L423", "L428"}
      /\ task[t].pc # "done" => task[t].inv # NoInv

\* C7: a probe whose dial fails sets Status to false, then Error to the dial
\* error, then invokes the Forward Primitive for its node, all within the
\* round of probes it belongs to: when the health checker begins its next
\* round, every probe of an earlier round has returned from the dial and, if
\* the dial failed, has made both writes and the recovery invocation.
C7_FailedProbeMarksUnhealthy ==
  []C7_DoneBeforeNextTick /\ [][\A t \in ProbeIds : C7_ProbeStep(t)]_vars

C7_Witness ==
  \E t \in Probes :
    /\ task[t].tick < ticks
    /\ task[t].pc = "L446"
    /\ ~list[task[t].node].Status
    /\ list[task[t].node].Error = DialError

\* what a step of goroutine t leaves alone
C8_Frame(t) ==
  (task[t].pc # "none" /\ task'[t].pc # task[t].pc /\ ~Exits) =>
    /\ \A i \in 1..Len(list) : i # task[t].node => list'[i] = list[i]
    /\ \A u \in TaskIds :
         (task[u].pc # "none" /\ task[u].node # task[t].node) => task'[u] = task[u]
    /\ hcPc' = hcPc /\ hcIdx' = hcIdx /\ ticks' = ticks

\* once a round's probes are launched, every round so far has probed every node
C8_EveryNodeProbed ==
  hcPc = "L431" =>
    \A i \in 1..Len(list), k \in 1..ticks :
      /\ task[ProbeId(k, i)].pc # "none"
      /\ task[ProbeId(k, i)].node = i
      /\ task[ProbeId(k, i)].tick = k

\* C8: a step of a goroutine of one node leaves the Status and Error of every
\* other node, and every goroutine of another node, as they were; and every
\* round of the health checker probes every node of the list, whatever the
\* state of the nodes and of their workers.
C8_FailureIsolated == []C8_EveryNodeProbed /\ [][\A t \in TaskIds : C8_Frame(t)]_vars

C8_Witness ==
  /\ Len(list) = 2
  /\ task[WorkerId(1)].pc = "done"
  /\ ~list[1].Status /\ list[1].Error \in ForwardErrors
  /\ task[WorkerId(2)].pc = "L446"
  /\ list[2].Status /\ list[2].Error = ""
  /\ ticks = 2
  /\ task[ProbeId(2, 1)].pc = "L420"

\* a worker has ended exactly when its last result is a terminal error
C9_EndedIffTerminal ==
  \A w \in Workers :
    /\ task[w].pc = "done" => Terminal(task[w].err)
    /\ Terminal(task[w].err) => task[w].pc \in {"L453", "done"}

\* the steps of worker w when the Forward Primitive returns io.EOF or nil
C9_LoopStep(w) ==
  /\ (task[w].pc = "L446" /\ Steps(w) /\ ~Exits /\ task'[w].err \in {EOF, Nil}) =>
       /\ list'[task[w].node].Status
       /\ task'[w].pc = "L437"
  /\ (task[w].pc = "L437" /\ Steps(w) /\ ~Exits) =>
       /\ task'[w].pc = "L446"
       /\ task'[w].inv # NoInv

\* C9: a worker has ended exactly when the Forward Primitive returned it an
\* error other than io.EOF; after io.EOF or nil the worker sets Status to true
\* and invokes the Forward Primitive again.
C9_WorkerEndsOnlyOnError ==
  []C9_EndedIffTerminal /\ [][\A w \in WorkerIds : C9_LoopStep(w)]_vars

C9_Witness ==
  /\ Len(list) = 2
  /\ task[WorkerId(1)].pc = "done" /\ Terminal(task[WorkerId(1)].err)
  /\ task[WorkerId(2)].pc = "L437" /\ task[WorkerId(2)].err = Nil
  /\ task[WorkerId(2)].inv # NoInv
  /\ list[2].Status

\* C10: in every reachable state a node with Status = true has an empty Error.
C10_HealthyHasNoError ==
  \A i \in 1..Len(list) : list[i].Status => list[i].Error = ""
\* the steps of probe t after a successful dial
C11_ProbeStep(t) ==
  /\ (task[t].pc = "L420" /\ task'[t].pc = "L428") =>
       list'[task[t].node].Status
  /\ (task[t].pc = "L428" /\ Steps(t) /\ ~Exits) =>
       /\ list'[task[t].node].Error = ""
       /\ task'[t].pc = "done"
       /\ task'[t].inv = NoInv
  /\ (task[t].pc = "done" /\ ~Exits) => task'[t] = task[t]

\* C11: a probe whose dial succeeds sets Status to true, then Error to "",
\* and ends without ever invoking the Forward Primitive, whether the node's
\* worker is running or has ended.
C11_SuccessfulProbe == [][\A t \in ProbeIds : C11_ProbeStep(t)]_vars

C11_Witness ==
  /\ Len(list) = 2
  /\ task[WorkerId(1)].pc = "done"
  /\ task[WorkerId(2)].pc = "L446"
  /\ \A i \in 1..2 :
       /\ task[ProbeId(2, i)].pc = "done"
       /\ task[ProbeId(2, i)].inv = NoInv
       /\ list[i].Status
       /\ list[i].Error = ""

\* C12 as stated: no step changes ListenPort, Host or UserLogin of a node
C12_SpecFieldsNeverWritten ==
  [][\A i \in 1..Len(list) :
       /\ list'[i].ListenPort = list[i].ListenPort
       /\ list'[i].Host = list[i].Host
       /\ list'[i].UserLogin = list[i].UserLogin]_vars

\* what a step may do to the configured fields of node i
C12_FieldStep(i) ==
  /\ list'[i].ListenPort = list[i].ListenPort
  /\ \/ list'[i].Host = list[i].Host
     \/ list[i].Host = "" /\ list'[i].Host = nodeHost
  /\ \/ list'[i].UserLogin = list[i].UserLogin
     \/ list[i].UserLogin = "" /\ list'[i].UserLogin = defaultUser

\* C12 (amended): ListenPort never changes, and a Host or UserLogin that the
\* configuration sets never changes; an empty Host or UserLogin is replaced by
\* the supervisor's default host or user when execForwarding first runs for
\* the node, and the list keeps its length.
C12_OnlyDefaultsAreFilledIn ==
  [][Len(list') = Len(list) /\ \A i \in 1..Len(list) : C12_FieldStep(i)]_vars

C12_Witness ==
  /\ Len(list) = 2
  /\ list[1].UserLogin = defaultUser /\ list[1].Host = nodeHost
  /\ list[2].UserLogin = "alice" /\ list[2].Host = "node-2"
  /\ task[WorkerId(1)].pc = "L437" /\ task[WorkerId(1)].inv # NoInv
  /\ task[WorkerId(2)].pc = "L437" /\ task[WorkerId(2)].inv # NoInv
\* goroutine t calls the Forward Primitive in this step
Invokes(t) == task[t].pc = "L437" /\ task'[t].pc = "L446"
\* the worker of node n has ended
WorkerEnded(n) == \E w \in Workers : task[w].node = n /\ task[w].pc = "done"
\* the worker of node n has received a terminal error
WorkerFailed(n) == \E w \in Workers : task[w].node = n /\ Terminal(task[w].err)

\* C13 as stated: once a node's worker has ended, every invocation of the
\* Forward Primitive for the node is made by a probe and comes straight after
\* that probe's failed dial (it is the probe's first invocation).
C13_OnlyRightAfterFailedProbe ==
  [][\A t \in TaskIds :
       (Invokes(t) /\ WorkerEnded(task[t].node)) =>
         /\ task[t].tick > 0
         /\ task[t].inv = NoInv]_vars

\* C13 (amended): once a node's worker has received its terminal error, every
\* invocation of the Forward Primitive for the node is made by a probe whose
\* dial failed: it is the probe's first invocation, straight after the failed
\* dial, or a restart of that probe's own loop after io.EOF or nil.
C13_OnlyProbesRecover ==
  [][\A t \in TaskIds :
       (Invokes(t) /\ WorkerFailed(task[t].node)) =>
         /\ task[t].tick > 0
         /\ \/ task[t].inv = NoInv /\ task[t].err = NoResult
            \/ task[t].inv # NoInv /\ task[t].err \in {EOF, Nil}]_vars

C13_Witness ==
  \E t \in Probes :
    /\ WorkerEnded(task[t].node)
    /\ task[t].pc = "L437"
    /\ task[t].inv # NoInv
    /\ task[t].err = EOF

\* the probes that have not ended
LiveProbes == { t \in Probes : task[t].pc # "done" }

\* C14: every probe ends soon after its dial, successful or not, so the live
\* probes never outnumber one round of probes (one per node), however many
\* rounds the health checker has begun.
C14_ProbesShortLived == Cardinality(LiveProbes) <= Len(list)

\* the goroutines of node n inside a call of the Forward Primitive
Forwarding(n) == { t \in Started : task[t].node = n /\ task[t].pc = "L446" }
\* the probes of node n inside execForwarding
Recovering(n) ==
  { t \in Probes : task[t].node = n /\ task[t].pc \in {"L437", "L446", "L453"} }

\* C15: a node never has more than one recovery by a probe in progress, and
\* never more than two invocations of the Forward Primitive in progress.
C15_AtMostOneRecovery ==
  \A n \in 1..Len(list) :
    /\ Cardinality(Recovering(n)) <= 1
    /\ Cardinality(Forwarding(n)) <= 2
\* a round of probes is complete: one probe launched for every node
RoundLaunched(k) ==
  /\ ticks = k
  /\ hcPc = "L431"
  /\ \A i \in 1..Len(list) : task[ProbeId(k, i)].pc # "none"

\* C16: as long as the process runs, every round of the health checker is
\* followed by another complete round (up to MaxTicks rounds), whatever the
\* probes and the workers are doing.
C16_NextRoundAlwaysComes ==
  \A k \in 1..(MaxTicks - 1) :
    (Alive /\ ticks = k) ~> (~Alive \/ RoundLaunched(k + 1))

C16_Witness ==
  /\ RoundLaunched(2)
  /\ Len(list) = 1
  /\ task[WorkerId(1)].pc = "done"
  /\ task[ProbeId(1, 1)].pc = "L446"
\* C17: whenever the selector can handle a key, pos is an index of list
\* (0 <= pos < len(list)), for every list including the empty one; Enter never
\* fails and selects list[pos].
C17_PosIsValidIndex ==
  /\ ui.pc = "loop" => (0 <= ui.pos /\ ui.pos < Len(ui.list))
  /\ ui.pc # "panic"
  /\ ui.pc = "quit" => ui.selectedUser = ui.list[ui.pos + 1]

\* a Read that has returned
C18_ReadResult ==
  (rd.pc = "forward" /\ rd.reads > 0) =>
    /\ rd.n = 0
    /\ rd.err = EOF
    /\ rd.slept = IdleDur

\* what the steps of the loop do to the reader
C18_ReaderStep ==
  /\ (rd.pc = "L445" /\ rd'.pc = "forward") =>
       /\ rd'.in > rd.in
       /\ rd'.in = rd'.made
       /\ rd'.reads = 0
  /\ (rd.pc # "L445") => rd'.in = rd.in
  /\ (rd.pc = "sleep" /\ rd'.pc = "forward") =>
       /\ rd.slept = IdleDur
       /\ rd'.n = 0
       /\ rd'.err = EOF

\* C18: every invocation of the Forward Primitive gets a reader no earlier
\* invocation had, and every Read on it returns 0 bytes and io.EOF after
\* sleeping for the idle duration, never data and never another error.
C18_ReaderOnlyEOF == []C18_ReadResult /\ [][C18_ReaderStep]_vars

C18_Witness ==
  /\ rd.pc = "forward"
  /\ rd.made = 2 /\ rd.in = 2
  /\ rd.reads = 2
  /\ rd.n = 0 /\ rd.err = EOF

\* the list the selector holds is the reverse of the list it was given
C19_IsReverse ==
  ui.pc \in {"loop", "quit", "panic"} =>
    /\ Len(ui.list) = Len(ui.listUser)
    /\ \A i \in 0..(Len(ui.listUser) - 1) :
         ui.list[i + 1] = ui.listUser[(Len(ui.listUser) - 1 - i) + 1]
    /\ reverse(ui.list) = ui.listUser

\* C19: reverse(s) has the length of s and its i-th element is
\* s[len(s)-1-i], the list passed in is left as it was, and reversing the
\* result gives s again.
C19_ReverseIsInvolution ==
  []C19_IsReverse /\ [][ui'.listUser = ui.listUser]_vars

C19_Witness ==
  /\ ui.pc = "loop"
  /\ ui.listUser = <<"root", "ubuntu", "admin">>
  /\ ui.list = <<"admin", "ubuntu", "root">>
====
